---- MODULE Spec2Model ----
(***************************************************************************)
(* A model of the value type layer of go-mysql-server (sql/type.go): the   *)
(* Type variants with their Convert / Compare / SQL operations, and the    *)
(* Schema / Column row check; and of the mapping of the pilosa index       *)
(* driver (sql/index/pilosa/mapping.go), which goroutines share.           *)
(*                                                                         *)
(* Go values are modelled as records [k |-> kind, v |-> payload], where    *)
(* the kind is the dynamic Go type of the value held by an interface{}.    *)
(*   - integer kinds carry the integer;                                    *)
(*   - float32 / float64 carry the number in tenths (15 is 1.5);           *)
(*   - string and []byte carry a sequence of one-character strings;        *)
(*   - time.Time carries [sec, nsec, loc], the Unix time and the location; *)
(*   - time.Duration carries its nanosecond count;                         *)
(*   - []interface{} carries a sequence of values;                         *)
(*   - a Generator carries [items, failAt, closeErr].                      *)
(* TLC's integers are 32 bits wide, so every integer of the model lies in  *)
(* the range of the 32-bit and 64-bit Go widths.                           *)
(***************************************************************************)
EXTENDS Integers, Sequences, FiniteSets, TLC

VARIABLES op, recv, args, ret, clients, db, bucket, pc, arg

vars == <<op, recv, args, ret, clients, db, bucket, pc, arg>>

----------------------------------------------------------------------------
(* Bounds of the model.                                                    *)

\* the integer inputs are -MaxInt .. MaxInt, and a few named ones beyond
MaxInt == 1
\* the longest row, tuple and sequence input
MaxLen == 2
\* the goroutines that share the mapping are 1 .. MaxProcs
MaxProcs == 2
\* the values given to getRowID are nil and the int64 values 1 .. MaxValue
MaxValue == 2
\* open is called while the client count is below MaxClients
MaxClients == 2

----------------------------------------------------------------------------
(* Go values.                                                              *)

V(k, v) == [k |-> k, v |-> v]

Nil == V("nil", 0)

GoBool(b) == V("bool", b)

GoInt(n) == V("int", n)

GoString(s) == V("string", s)

GoBytes(s) == V("bytes", s)

GoTime(sec, nsec, loc) == V("time", [sec |-> sec, nsec |-> nsec, loc |-> loc])

GoSlice(s) == V("slice", s)

SignedKinds == {"int", "int8", "int16", "int32", "int64"}

UnsignedKinds == {"uint", "uint8", "uint16", "uint32", "uint64"}

IntKinds == SignedKinds \cup UnsignedKinds

FloatKinds == {"float32", "float64"}

(* The result of a call: st is "ok" (a value, no error), "err" (an error   *)
(* value was returned) or "panic" (the call did not return: a run-time     *)
(* fault). pulls and closes count the Next and Close calls the call made   *)
(* on Generators.                                                          *)
Result(st, val, err, pulls, closes) ==
    [st |-> st, val |-> val, err |-> err, pulls |-> pulls, closes |-> closes]

Ok(val) == Result("ok", val, "", 0, 0)

Err(e) == Result("err", Nil, e, 0, 0)

Panic(e) == Result("panic", Nil, e, 0, 0)

----------------------------------------------------------------------------
(* Text: strconv and the decimal renderings.                               *)

Digits == <<"0", "1", "2", "3", "4", "5", "6", "7", "8", "9">>

IsDigit(c) == \E i \in 1..Len(Digits) : Digits[i] = c

DigitVal(c) == (CHOOSE i \in 1..Len(Digits) : Digits[i] = c) - 1

RECURSIVE FormatNat(_)
\* strconv.FormatInt(n, 10) of n >= 0
FormatNat(n) ==
    IF n < 10 THEN <<Digits[n + 1]>>
    ELSE FormatNat(n \div 10) \o <<Digits[(n % 10) + 1]>>

\* strconv.FormatInt(n, 10), strconv.Itoa(n)
FormatInt(n) == IF n < 0 THEN <<"-">> \o FormatNat(-n) ELSE FormatNat(n)

\* strconv.FormatFloat(f, 'f', -1, bits) of x tenths
FormatFloat(x) ==
    LET a == IF x < 0 THEN -x ELSE x
        sign == IF x < 0 THEN <<"-">> ELSE <<>>
        frac == IF a % 10 = 0 THEN <<>> ELSE <<".", Digits[(a % 10) + 1]>>
    IN sign \o FormatNat(a \div 10) \o frac

RECURSIVE DigitsValue(_, _, _)
\* the value of the digit string s in the base, added to acc * base^Len(s)
DigitsValue(s, base, acc) ==
    IF s = <<>> THEN acc
    ELSE DigitsValue(Tail(s), base, acc * base + DigitVal(Head(s)))

AllDigits(s, base) ==
    s # <<>> /\ \A i \in 1..Len(s) : IsDigit(s[i]) /\ DigitVal(s[i]) < base

(* strconv.ParseUint(s, 0, 64) on the strings of the model: decimal        *)
(* digits, or octal digits after a leading 0. [ok, n].                     *)
ParseUint(s) ==
    LET base == IF Len(s) > 1 /\ s[1] = "0" THEN 8 ELSE 10
    IN IF AllDigits(s, base)
       THEN [ok |-> TRUE, n |-> DigitsValue(s, base, 0)]
       ELSE [ok |-> FALSE, n |-> 0]

(* strconv.ParseInt(s, 0, 0): an optional sign, then as ParseUint.         *)
ParseInt(s) ==
    LET signed == s # <<>> /\ s[1] \in {"-", "+"}
    IN [ParseUint(IF signed THEN Tail(s) ELSE s)
          EXCEPT !.n = IF signed /\ s[1] = "-" THEN -@ ELSE @]

(* strconv.ParseFloat(s, 64) on the strings of the model: an optional      *)
(* sign, decimal digits and at most one digit after a point; the value in  *)
(* tenths.                                                                 *)
ParseFloat(s) ==
    LET signed == s # <<>> /\ s[1] \in {"-", "+"}
        body == IF signed THEN Tail(s) ELSE s
        neg == signed /\ s[1] = "-"
        dot == {i \in 1..Len(body) : body[i] = "."}
        whole == IF dot = {} THEN body
                 ELSE SubSeq(body, 1, (CHOOSE i \in dot : TRUE) - 1)
        frac == IF dot = {} THEN <<>>
                ELSE SubSeq(body, (CHOOSE i \in dot : TRUE) + 1, Len(body))
        good == /\ Cardinality(dot) <= 1
                /\ Len(frac) <= 1
                /\ Len(whole) + Len(frac) > 0
                /\ \A i \in 1..Len(whole) : IsDigit(whole[i])
                /\ \A i \in 1..Len(frac) : IsDigit(frac[i])
        mag == DigitsValue(whole, 10, 0) * 10 + DigitsValue(frac, 10, 0)
    IN IF good THEN [ok |-> TRUE, n |-> IF neg THEN -mag ELSE mag]
       ELSE [ok |-> FALSE, n |-> 0]

\* float to integer conversion int64(f): the fraction is discarded
TruncFloat(x) == IF x >= 0 THEN x \div 10 ELSE -((-x) \div 10)

\* math.Round: to the nearest integer, halves away from zero
RoundFloat(x) == IF x >= 0 THEN (x + 5) \div 10 ELSE -((-x + 5) \div 10)

----------------------------------------------------------------------------
(* github.com/spf13/cast, as type.go calls it. Each returns a Result whose *)
(* value has the Go type of the function's result.                         *)

\* the integer a cast to a signed integer type reads from v: [ok, n]
CastSigned(v) ==
    CASE v.k \in IntKinds -> [ok |-> TRUE, n |-> v.v]
      [] v.k \in FloatKinds -> [ok |-> TRUE, n |-> TruncFloat(v.v)]
      [] v.k = "string" -> ParseInt(v.v)
      [] v.k = "bool" -> [ok |-> TRUE, n |-> IF v.v THEN 1 ELSE 0]
      [] v.k = "nil" -> [ok |-> TRUE, n |-> 0]
      [] OTHER -> [ok |-> FALSE, n |-> 0]

\* the integer a cast to an unsigned integer type reads from v: a negative
\* number is refused
CastUnsigned(v) ==
    CASE v.k \in IntKinds -> [ok |-> v.v >= 0, n |-> v.v]
      [] v.k \in FloatKinds -> [ok |-> v.v >= 0, n |-> TruncFloat(v.v)]
      [] v.k = "string" -> ParseUint(v.v)
      [] v.k = "bool" -> [ok |-> TRUE, n |-> IF v.v THEN 1 ELSE 0]
      [] v.k = "nil" -> [ok |-> TRUE, n |-> 0]
      [] OTHER -> [ok |-> FALSE, n |-> 0]

\* the number, in tenths, a cast to a float type reads from v
CastFloat(v) ==
    CASE v.k \in FloatKinds -> [ok |-> TRUE, n |-> v.v]
      [] v.k \in IntKinds -> [ok |-> TRUE, n |-> v.v * 10]
      [] v.k = "string" -> ParseFloat(v.v)
      [] v.k = "bool" -> [ok |-> TRUE, n |-> IF v.v THEN 10 ELSE 0]
      [] OTHER -> [ok |-> FALSE, n |-> 0]

CastResult(kind, c) == IF c.ok THEN Ok(V(kind, c.n)) ELSE Err("cast")

ToInt32E(v) == CastResult("int32", CastSigned(v))

ToInt64E(v) == CastResult("int64", CastSigned(v))

ToUint32E(v) == CastResult("uint32", CastUnsigned(v))

ToUint64E(v) == CastResult("uint64", CastUnsigned(v))

ToFloat32E(v) == CastResult("float32", CastFloat(v))

ToFloat64E(v) == CastResult("float64", CastFloat(v))

----------------------------------------------------------------------------
(* The Type values.                                                        *)

T(tag) == [tag |-> tag, elems |-> <<>>]

Null == T("Null")

Int8 == T("Int8")

Uint8 == T("Uint8")

Int16 == T("Int16")

Uint16 == T("Uint16")

Int32 == T("Int32")

Int64 == T("Int64")

Uint32 == T("Uint32")

Uint64 == T("Uint64")

Float32 == T("Float32")

Float64 == T("Float64")

Timestamp == T("Timestamp")

Date == T("Date")

Text == T("Text")

Boolean == T("Boolean")

JSON == T("JSON")

Blob == T("Blob")

Tuple(types) == [tag |-> "Tuple", elems |-> types]

Array(underlying) == [tag |-> "Array", elems |-> <<underlying>>]

NumberTypes ==
    {Int8, Uint8, Int16, Uint16, Int32, Int64, Uint32, Uint64, Float32, Float64}

IsSigned(t) == t = Int32 \/ t = Int64

\* IsUnsigned, had it named every unsigned width
IsUnsignedEveryWidth(t) == t \in {Uint8, Uint16, Uint32, Uint64}

IsUnsigned(t) == t = Uint32 \/ t = Uint64

IsInteger(t) == IsSigned(t) \/ IsUnsigned(t)

IsDecimal(t) == t = Float32 \/ t = Float64

IsNumber(t) == IsInteger(t) \/ IsDecimal(t)

----------------------------------------------------------------------------
(* nullT                                                                   *)

nullTConvert(v) == IF v # Nil THEN Err("ErrValueNotNil") ELSE Ok(Nil)

nullTCompare(a, b) == Ok(GoInt(0))

----------------------------------------------------------------------------
(* numberT                                                                 *)

numberTConvert(t, v0) ==
    \* a time.Time is converted from its Unix()
    LET v == IF v0.k = "time" THEN V("int64", v0.v.sec) ELSE v0
    IN CASE t = Int32 -> ToInt32E(v)
         [] t = Int64 -> ToInt64E(v)
         [] t = Uint32 -> ToUint32E(v)
         [] t = Uint64 -> ToUint64E(v)
         [] t = Float32 -> ToFloat32E(v)
         [] t = Float64 -> ToFloat64E(v)
         [] OTHER -> Err("ErrInvalidType")

\* the three-way comparison of two integers
ThreeWay(ca, cb) == IF ca = cb THEN 0 ELSE IF ca < cb THEN -1 ELSE 1

\* compareSigned, had it tested ca <= cb before the equality
compareSignedNoEqual(a, b) ==
    LET ca == ToInt64E(a)
        cb == ToInt64E(b)
    IN IF ca.st # "ok" THEN Err(ca.err)
       ELSE IF cb.st # "ok" THEN Err(cb.err)
       ELSE Ok(GoInt(IF ca.val.v <= cb.val.v THEN -1 ELSE 1))

compareSigned(a, b) ==
    LET ca == ToInt64E(a)
        cb == ToInt64E(b)
    IN IF ca.st # "ok" THEN Err(ca.err)
       ELSE IF cb.st # "ok" THEN Err(cb.err)
       ELSE Ok(GoInt(ThreeWay(ca.val.v, cb.val.v)))

compareUnsigned(a, b) ==
    LET ca == ToUint64E(a)
        cb == ToUint64E(b)
    IN IF ca.st # "ok" THEN Err(ca.err)
       ELSE IF cb.st # "ok" THEN Err(cb.err)
       ELSE Ok(GoInt(ThreeWay(ca.val.v, cb.val.v)))

numberTCompare(t, a, b) ==
    IF IsUnsigned(t) THEN compareUnsigned(a, b) ELSE compareSigned(a, b)

----------------------------------------------------------------------------
(* booleanT                                                                *)

(* In the clause that lists the ten integer types the switch variable b    *)
(* keeps the static type interface{}, so b != 0 compares b with the        *)
(* interface value int(0): a zero of any other integer type differs from   *)
(* it in dynamic type. In the float clause v.(float64) is a type assertion *)
(* without the comma-ok form: it panics on a float32.                      *)
booleanTConvert(v) ==
    CASE v.k = "bool" -> Ok(v)
      [] v.k \in IntKinds -> Ok(GoBool(v # GoInt(0)))
      [] v.k = "duration" -> Ok(GoBool(v.v # 0))
      \* UnixNano() is zero only at the epoch itself
      [] v.k = "time" -> Ok(GoBool(v.v.sec # 0 \/ v.v.nsec # 0))
      [] v.k \in FloatKinds ->
            IF v.k # "float64" THEN Panic("interface conversion")
            ELSE Ok(GoBool(RoundFloat(v.v) # 0))
      [] v.k = "string" -> Result("err", GoBool(FALSE), "unable to cast", 0, 0)
      [] OTHER -> Err("unable to cast")

\* Go's == panics on two values of one type that it cannot compare
booleanTCompare(a, b) ==
    IF a.k = b.k /\ a.k \in {"slice", "bytes"}
    THEN Panic("comparing uncomparable type")
    ELSE IF a = b THEN Ok(GoInt(0))
    ELSE IF a = GoBool(FALSE) THEN Ok(GoInt(-1))
    ELSE Ok(GoInt(1))

----------------------------------------------------------------------------
(* Package time: a time.Time is [sec, nsec, loc], sec the Unix time and    *)
(* loc the location [name, off], off the seconds east of UTC.              *)

UTCLoc == [name |-> <<"U", "T", "C">>, off |-> 0]

\* time.Time.UTC: the same instant, in the location UTC
UTC(ti) == GoTime(ti.v.sec, ti.v.nsec, UTCLoc)

\* time.Unix(sec, 0): the instant, in the local location
TimeUnix(sec, local) == GoTime(sec, 0, local)

\* time.Time.Before; a.After(b) is b.Before(a)
Before(a, b) == a.v.sec < b.v.sec \/ (a.v.sec = b.v.sec /\ a.v.nsec < b.v.nsec)

DaysIn(y, m) ==
    CASE m = 2 -> IF y % 4 = 0 /\ (y % 100 # 0 \/ y % 400 = 0) THEN 29 ELSE 28
      [] m \in {4, 6, 9, 11} -> 30
      [] OTHER -> 31

\* the days from 1970-01-01 to the civil date y-m-d
DaysFromCivil(y, m, d) ==
    LET yy == IF m <= 2 THEN y - 1 ELSE y
        era == yy \div 400
        yoe == yy - era * 400
        mp == IF m > 2 THEN m - 3 ELSE m + 9
        doy == (153 * mp + 2) \div 5 + d - 1
        doe == yoe * 365 + yoe \div 4 - yoe \div 100 + doy
    IN era * 146097 + doe - 719468

\* time.Date(y, m, d, hh, mm, ss, 0, loc), loc at off seconds east of UTC
TimeDate(y, m, d, hh, mm, ss, loc) ==
    GoTime(DaysFromCivil(y, m, d) * 86400 + hh * 3600 + mm * 60 + ss - loc.off,
           0, loc)

(* the wall clock [y, m, d, hh, mm, ss] of ti in its location: the civil   *)
(* date is the one that lies as many days after 1970-01-01 as the local    *)
(* second count has whole days.                                            *)
Clock(ti) ==
    LET w == ti.v.sec + ti.v.loc.off
        days == w \div 86400
    IN CHOOSE c \in [y : (1969 + days \div 366)..(1971 + days \div 365),
                     m : 1..12, d : 1..31,
                     hh : {(w % 86400) \div 3600},
                     mm : {(w % 3600) \div 60},
                     ss : {w % 60}] :
          c.d <= DaysIn(c.y, c.m) /\ DaysFromCivil(c.y, c.m, c.d) = days

(* A layout is the sequence of its chunks: the reference elements "2006",  *)
(* "01", "02", "15", "04", "05", ".999999999", "-0700", "Z07:00", "MST",   *)
(* and literal characters. Field is the field of the clock that each of    *)
(* the numeric elements stands for.                                        *)
Field ==
    [c \in {"2006", "01", "02", "15", "04", "05"} |->
        CASE c = "2006" -> "y" [] c = "01" -> "m" [] c = "02" -> "d"
          [] c = "15" -> "hh" [] c = "04" -> "mm" [] c = "05" -> "ss"]

\* n in decimal, padded with zeros to w digits
Pad(n, w) == [i \in 1..(w - Len(FormatNat(n))) |-> "0"] \o FormatNat(n)

RECURSIVE TrimZeros(_)
TrimZeros(s) ==
    IF s # <<>> /\ s[Len(s)] = "0" THEN TrimZeros(SubSeq(s, 1, Len(s) - 1))
    ELSE s

\* the layout element .999999999: the fraction of a second, if there is one
FormatFrac(nsec) == IF nsec = 0 THEN <<>> ELSE <<".">> \o TrimZeros(Pad(nsec, 9))

\* the layout element -0700 (colon FALSE) or -07:00 (colon TRUE)
FormatOffset(off, colon) ==
    LET a == IF off < 0 THEN -off ELSE off
    IN <<IF off < 0 THEN "-" ELSE "+">> \o Pad(a \div 3600, 2)
       \o (IF colon THEN <<":">> ELSE <<>>) \o Pad((a % 3600) \div 60, 2)

RECURSIVE FormatChunks(_, _, _)
(* time.Time.Format: the text of ti, whose wall clock is c, under the rest *)
(* of the layout. Z07:00 writes Z for UTC, and MST writes the offset of a  *)
(* location that has no name.                                              *)
FormatChunks(ti, c, layout) ==
    IF layout = <<>> THEN <<>>
    ELSE LET e == Head(layout)
         IN (CASE e \in DOMAIN Field -> Pad(c[Field[e]], IF e = "2006" THEN 4 ELSE 2)
               [] e = ".999999999" -> FormatFrac(ti.v.nsec)
               [] e \in {"-0700", "Z07:00", "MST"} ->
                    IF e = "MST" /\ ti.v.loc.name # <<>> THEN ti.v.loc.name
                    ELSE IF e = "Z07:00" /\ ti.v.loc.off = 0 THEN <<"Z">>
                    ELSE FormatOffset(ti.v.loc.off, e = "Z07:00")
               [] OTHER -> <<e>>)
            \o FormatChunks(ti, c, Tail(layout))

\* time.Time.String: the layout "2006-01-02 15:04:05.999999999 -0700 MST"
TimeString(ti) ==
    FormatChunks(ti, Clock(ti),
                 <<"2006", "-", "01", "-", "02", " ", "15", ":", "04", ":", "05",
                   ".999999999", " ", "-0700", " ", "MST">>)

\* time.Time.Format(time.RFC3339Nano), "2006-01-02T15:04:05.999999999Z07:00"
FormatRFC3339Nano(ti) ==
    FormatChunks(ti, Clock(ti),
                 <<"2006", "-", "01", "-", "02", "T", "15", ":", "04", ":", "05",
                   ".999999999", "Z07:00">>)

(* time.Parse, on the layouts of type.go.                                   *)

TimestampLayout ==
    <<"2006", "-", "01", "-", "02", " ", "15", ":", "04", ":", "05">>

DateLayout == <<"2006", "-", "01", "-", "02">>

RFC3339 ==
    <<"2006", "-", "01", "-", "02", "T", "15", ":", "04", ":", "05", "Z07:00">>

TimestampLayouts ==
    << DateLayout,
       RFC3339,
       <<"2006", "01", "02", "15", "04", "05">>,
       <<"2006", "01", "02">> >>

\* the leading digits of s
RECURSIVE LeadingDigits(_)
LeadingDigits(s) ==
    IF s # <<>> /\ IsDigit(Head(s)) THEN <<Head(s)>> \o LeadingDigits(Tail(s))
    ELSE <<>>

(* the number a numeric layout element e reads from s, [ok, n, rest]: four *)
(* digits for the year, getnum(s, fixed) for the others, which reads two   *)
(* digits, or a single one when not fixed; only the hour is not fixed. A   *)
(* month outside 1..12, an hour above 23 and a minute or second above 59   *)
(* are refused.                                                            *)
Getnum(s, e) ==
    LET w == CASE e = "2006" /\ Len(LeadingDigits(s)) >= 4 -> 4
               [] e # "2006" /\ Len(LeadingDigits(s)) >= 2 -> 2
               [] e = "15" /\ Len(LeadingDigits(s)) = 1 -> 1
               [] OTHER -> 0
        n == DigitsValue(SubSeq(s, 1, w), 10, 0)
    IN [ok |-> /\ w > 0
               /\ e = "01" => (n >= 1 /\ n <= 12)
               /\ e = "15" => n < 24
               /\ e \in {"04", "05"} => n < 60,
        n |-> n, rest |-> SubSeq(s, w + 1, Len(s))]

NoFields ==
    [ok |-> TRUE, y |-> 0, m |-> 1, d |-> 1, hh |-> 0, mm |-> 0, ss |-> 0,
     nsec |-> 0, zone |-> FALSE, off |-> 0]

RECURSIVE ParseChunks(_, _, _)
RECURSIVE ParseNum(_, _, _)
(* the fields read under the layout, whose first element e is numeric and  *)
(* has read g. A fraction of a second is read after the seconds even       *)
(* though the layout has none.                                             *)
ParseNum(layout, g, f) ==
    LET e == Head(layout)
        frac == IF e = "05" /\ Len(g.rest) >= 2 /\ g.rest[1] = "."
                THEN LeadingDigits(Tail(g.rest)) ELSE <<>>
    IN IF ~g.ok \/ Len(frac) > 9 THEN [f EXCEPT !.ok = FALSE]
       ELSE ParseChunks(Tail(layout),
              IF frac = <<>> THEN g.rest
              ELSE SubSeq(g.rest, Len(frac) + 2, Len(g.rest)),
              [f EXCEPT ![Field[e]] = g.n,
                        \* the fraction, filled up to nine digits
                        !.nsec = DigitsValue(
                                   frac \o [i \in 1..(9 - Len(frac)) |-> "0"],
                                   10, 0)])

\* the fields read from value under the rest of the layout, f those read so far
ParseChunks(layout, value, f) ==
    IF layout = <<>> THEN [f EXCEPT !.ok = (value = <<>>)]
    ELSE
      LET c == Head(layout)
          rest == Tail(layout)
      IN CASE c \in DOMAIN Field ->
                ParseNum(layout, Getnum(value, c), f)
           [] c = "Z07:00" ->
                IF value # <<>> /\ value[1] = "Z"
                THEN ParseChunks(rest, Tail(value), [f EXCEPT !.zone = TRUE])
                ELSE IF /\ Len(value) >= 6
                        /\ value[1] \in {"+", "-"}
                        /\ value[4] = ":"
                        /\ \A i \in {2, 3, 5, 6} : IsDigit(value[i])
                THEN LET h == DigitsValue(SubSeq(value, 2, 3), 10, 0)
                         m == DigitsValue(SubSeq(value, 5, 6), 10, 0)
                         o == h * 3600 + m * 60
                     IN ParseChunks(rest, SubSeq(value, 7, Len(value)),
                          [f EXCEPT !.zone = TRUE,
                                    !.off = IF value[1] = "-" THEN -o ELSE o])
                ELSE [f EXCEPT !.ok = FALSE]
           [] OTHER ->
                IF value # <<>> /\ value[1] = c
                THEN ParseChunks(rest, Tail(value), f)
                ELSE [f EXCEPT !.ok = FALSE]

(* the end of time.Parse: the time of the fields f, [ok, t]. A text        *)
(* without a zone is read as UTC; the day is checked against the month.    *)
ParsedTime(f) ==
    LET loc == IF f.off = 0 THEN UTCLoc ELSE [name |-> <<>>, off |-> f.off]
    IN IF f.ok /\ f.d >= 1 /\ f.d <= DaysIn(f.y, f.m)
       THEN [ok |-> TRUE,
             t |-> GoTime(
                     TimeDate(f.y, f.m, f.d, f.hh, f.mm, f.ss, loc).v.sec,
                     f.nsec, loc)]
       ELSE [ok |-> FALSE, t |-> GoTime(0, 0, UTCLoc)]

\* time.Parse(layout, value): [ok, t]
TimeParse(layout, value) == ParsedTime(ParseChunks(layout, value, NoFields))

----------------------------------------------------------------------------
(* Bytes: the printable ASCII characters in code order, from the space     *)
(* (the grave accent is spelled out).                                      *)

Ascii ==
    <<
       " ", "!", "\"", "#", "$", "%", "&", "'", "(", ")", "*", "+",
       ",", "-", ".", "/", "0", "1", "2", "3", "4", "5", "6", "7",
       "8", "9", ":", ";", "<", "=", ">", "?", "@", "A", "B", "C",
       "D", "E", "F", "G", "H", "I", "J", "K", "L", "M", "N", "O",
       "P", "Q", "R", "S", "T", "U", "V", "W", "X", "Y", "Z", "[",
       "\\", "]", "^", "_", "grave", "a", "b", "c", "d", "e", "f", "g",
       "h", "i", "j", "k", "l", "m", "n", "o", "p", "q", "r", "s",
       "t", "u", "v", "w", "x", "y", "z", "{", "|", "}", "~"
    >>

\* the byte of the character c
CharCode(c) == 31 + (CHOOSE i \in 1..Len(Ascii) : Ascii[i] = c)

RECURSIVE BytesCompare(_, _)
\* bytes.Compare, strings.Compare: -1, 0 or 1 in the lexicographic byte order
BytesCompare(a, b) ==
    CASE a = <<>> /\ b = <<>> -> 0
      [] a = <<>> /\ b # <<>> -> -1
      [] a # <<>> /\ b = <<>> -> 1
      [] OTHER ->
           IF Head(a) = Head(b) THEN BytesCompare(Tail(a), Tail(b))
           ELSE IF CharCode(Head(a)) < CharCode(Head(b)) THEN -1 ELSE 1

\* the alphabet of base64.StdEncoding
EncodeStd ==
    <<
       "A", "B", "C", "D", "E", "F", "G", "H", "I", "J", "K", "L", "M", "N", "O", "P",
       "Q", "R", "S", "T", "U", "V", "W", "X", "Y", "Z", "a", "b", "c", "d", "e", "f",
       "g", "h", "i", "j", "k", "l", "m", "n", "o", "p", "q", "r", "s", "t", "u", "v",
       "w", "x", "y", "z", "0", "1", "2", "3", "4", "5", "6", "7", "8", "9", "+", "/"
    >>

RECURSIVE Base64(_)
\* base64.StdEncoding.EncodeToString
Base64(bs) ==
    LET c(i) == IF i <= Len(bs) THEN CharCode(bs[i]) ELSE 0
        n == c(1) * 65536 + c(2) * 256 + c(3)
        e(k) == EncodeStd[k + 1]
    IN CASE Len(bs) = 0 -> <<>>
         [] Len(bs) = 1 ->
              <<e(n \div 262144), e((n \div 4096) % 64), "=", "=">>
         [] Len(bs) = 2 ->
              <<e(n \div 262144), e((n \div 4096) % 64), e((n \div 64) % 64),
                "=">>
         [] OTHER ->
              <<e(n \div 262144), e((n \div 4096) % 64), e((n \div 64) % 64),
                e(n % 64)>> \o Base64(SubSeq(bs, 4, Len(bs)))

----------------------------------------------------------------------------
(* timestampT                                                              *)

\* the location time.Unix gives its result: the local one of the process
Local == [name |-> <<"C", "E", "T">>, off |-> 3600]

RECURSIVE FirstLayout(_, _, _)
\* FirstLayout, had it left the parsed time in the location of its text
FirstLayoutNoUTC(p, layouts, value) ==
    IF p.ok THEN Ok(p.t)
    ELSE IF layouts = <<>> THEN Err("ErrConvertingToTime")
    ELSE FirstLayout(TimeParse(Head(layouts), value), Tail(layouts), value)

(* the time of the parse p when it succeeded, else of the parse of value   *)
(* under the first of the layouts that accepts it, in UTC; else the        *)
(* failure ErrConvertingToTime.                                            *)
FirstLayout(p, layouts, value) ==
    IF p.ok THEN Ok(UTC(p.t))
    ELSE IF layouts = <<>> THEN Err("ErrConvertingToTime")
    ELSE FirstLayout(TimeParse(Head(layouts), value), Tail(layouts), value)

(* the default case of timestampT.Convert and of dateT.Convert, ts the     *)
(* result of Int64.Convert: time.Unix(ts.(int64), 0).UTC()                 *)
UnixTime(ts) ==
    IF ts.st # "ok" THEN Err("ErrInvalidType")
    ELSE Ok(UTC(TimeUnix(ts.val.v, Local)))

\* a text is parsed under TimestampLayout, and then under TimestampLayouts
timestampTConvert(v) ==
    CASE v.k = "time" -> Ok(UTC(v))
      [] v.k = "string" ->
           FirstLayout([ok |-> FALSE], <<TimestampLayout>> \o TimestampLayouts,
                       v.v)
      [] OTHER -> UnixTime(numberTConvert(Int64, v))

\* a.(time.Time) and b.(time.Time) panic on a value of another type
timestampTCompare(a, b) ==
    IF a.k # "time" \/ b.k # "time" THEN Panic("interface conversion")
    ELSE IF Before(a, b) THEN Ok(GoInt(-1))
    ELSE IF Before(b, a) THEN Ok(GoInt(1))
    ELSE Ok(GoInt(0))

----------------------------------------------------------------------------
(* dateT                                                                   *)

\* truncateDate, had it left the time as it was
truncateDateNoop(ti) == ti

\* t.Truncate(24 * time.Hour): down to a multiple of a day since the zero
\* time, which is a whole number of days before the Unix epoch
truncateDate(ti) == GoTime(ti.v.sec - (ti.v.sec % 86400), 0, ti.v.loc)

(* Truncate rounds the instant, whatever the location of the time, so the  *)
(* time of a text or of a number is truncated here after it was moved to   *)
(* UTC; a failure has no time to truncate.                                 *)
dateTConvert(v) ==
    CASE v.k = "time" -> Ok(UTC(truncateDate(v)))
      [] v.k = "string" ->
           [FirstLayout([ok |-> FALSE], <<DateLayout>>, v.v)
              EXCEPT !.val = IF @.k = "nil" THEN @ ELSE truncateDate(@)]
      [] OTHER ->
           [UnixTime(numberTConvert(Int64, v))
              EXCEPT !.val = IF @.k = "nil" THEN @ ELSE truncateDate(@)]

dateTCompare(a, b) ==
    IF a.k # "time" \/ b.k # "time" THEN Panic("interface conversion")
    ELSE LET av == truncateDate(a)
             bv == truncateDate(b)
         IN IF Before(av, bv) THEN Ok(GoInt(-1))
            ELSE IF Before(bv, av) THEN Ok(GoInt(1))
            ELSE Ok(GoInt(0))

----------------------------------------------------------------------------
(* textT                                                                   *)

(* time.Duration.String, for the durations of the model: zero, less than a *)
(* microsecond, and whole seconds under a minute.                          *)
DurationString(d) ==
    LET a == IF d < 0 THEN -d ELSE d
    IN CASE d = 0 -> <<"0", "s">>
         [] a > 0 /\ a < 1000 -> FormatInt(d) \o <<"n", "s">>
         [] a >= 1000000000 /\ a % 1000000000 = 0 ->
              FormatInt(d \div 1000000000) \o <<"s">>

\* the kinds that implement fmt.Stringer
IsStringer(v) == v.k \in {"time", "duration"}

\* fmt.Stringer.String
String(v) == IF v.k = "time" THEN TimeString(v) ELSE DurationString(v.v)

\* cast.ToStringE
ToStringE(v) ==
    CASE v.k = "string" -> Ok(v)
      [] v.k = "bool" ->
           Ok(GoString(IF v.v THEN <<"t", "r", "u", "e">>
                       ELSE <<"f", "a", "l", "s", "e">>))
      [] v.k \in FloatKinds -> Ok(GoString(FormatFloat(v.v)))
      [] v.k \in IntKinds -> Ok(GoString(FormatInt(v.v)))
      [] v.k = "bytes" -> Ok(GoString(v.v))
      [] v.k = "nil" -> Ok(GoString(<<>>))
      [] IsStringer(v) -> Ok(GoString(String(v)))
      [] OTHER -> Err("cast")

\* the text of cast.ToStringE, its error replaced by ErrConvertToSQL
textTConvert(v) ==
    [ToStringE(v) EXCEPT !.err = IF @ = "" THEN "" ELSE "ErrConvertToSQL"]

textTCompare(a, b) ==
    IF a.k # "string" \/ b.k # "string" THEN Panic("interface conversion")
    ELSE Ok(GoInt(BytesCompare(a.v, b.v)))

----------------------------------------------------------------------------
(* blobT                                                                   *)

\* blobT.Convert, had it no rule for a []byte
blobTConvertNoBytes(v) ==
    CASE v.k = "nil" -> Ok(GoBytes(<<>>))
      [] v.k = "string" -> Ok(GoBytes(v.v))
      [] IsStringer(v) -> Ok(GoBytes(String(v)))
      [] OTHER -> Err("ErrInvalidType")

blobTConvert(v) ==
    CASE v.k = "nil" -> Ok(GoBytes(<<>>))
      [] v.k = "bytes" -> Ok(v)
      [] v.k = "string" -> Ok(GoBytes(v.v))
      [] IsStringer(v) -> Ok(GoBytes(String(v)))
      [] OTHER -> Err("ErrInvalidType")

blobTCompare(a, b) ==
    IF a.k # "bytes" \/ b.k # "bytes" THEN Panic("interface conversion")
    ELSE Ok(GoInt(BytesCompare(a.v, b.v)))

----------------------------------------------------------------------------
(* jsonT, and encoding/json on the values of the model.                    *)

RECURSIVE EscapeJSON(_)
\* the body of a JSON string literal: quotes and backslashes escaped, and
\* the characters <, > and & written by their code points
EscapeJSON(s) ==
    IF s = <<>> THEN <<>>
    ELSE LET c == Head(s)
             e == CASE c = "\"" -> <<"\\", "\"">>
                    [] c = "\\" -> <<"\\", "\\">>
                    [] c = "<" -> <<"\\", "u", "0", "0", "3", "c">>
                    [] c = ">" -> <<"\\", "u", "0", "0", "3", "e">>
                    [] c = "&" -> <<"\\", "u", "0", "0", "2", "6">>
                    [] OTHER -> <<c>>
         IN e \o EscapeJSON(Tail(s))

RECURSIVE Marshal(_)
RECURSIVE MarshalElems(_)
\* the elements of a JSON array, comma separated: [ok, s]
MarshalElems(vs) ==
    IF vs = <<>> THEN [ok |-> TRUE, s |-> <<>>]
    ELSE LET h == Marshal(Head(vs))
             r == MarshalElems(Tail(vs))
         IN IF h.st # "ok" \/ ~r.ok THEN [ok |-> FALSE, s |-> <<>>]
            ELSE [ok |-> TRUE,
                  s |-> h.val.v \o (IF Len(vs) > 1 THEN <<",">> ELSE <<>>)
                        \o r.s]

(* json.Marshal: ([]byte, error). A time.Time writes itself as a quoted    *)
(* RFC 3339 text, a []byte as a quoted base64 text, a time.Duration as the *)
(* integer it is; a channel has no encoding. A Generator is not given to   *)
(* it.                                                                     *)
Marshal(v) ==
    CASE v.k = "nil" -> Ok(GoBytes(<<"n", "u", "l", "l">>))
      [] v.k = "bool" ->
           Ok(GoBytes(IF v.v THEN <<"t", "r", "u", "e">>
                      ELSE <<"f", "a", "l", "s", "e">>))
      [] v.k \in IntKinds \cup {"duration"} -> Ok(GoBytes(FormatInt(v.v)))
      [] v.k \in FloatKinds -> Ok(GoBytes(FormatFloat(v.v)))
      [] v.k \in {"string", "bytes", "time"} ->
           Ok(GoBytes(<<"\"">>
                      \o (CASE v.k = "string" -> EscapeJSON(v.v)
                            [] v.k = "bytes" -> Base64(v.v)
                            [] v.k = "time" -> FormatRFC3339Nano(v))
                      \o <<"\"">>))
      [] v.k = "slice" ->
           LET r == MarshalElems(v.v)
           IN IF r.ok THEN Ok(GoBytes(<<"[">> \o r.s \o <<"]">>))
              ELSE Err("json")
      [] v.k = "chan" -> Err("json")

\* a JSON number without exponent: -? (0 | [1-9][0-9]*) (. [0-9]+)?, with
\* neg characters of sign and w digits before the point
IsJSONNumber(s) ==
    \E neg \in 0..1, w \in 1..Len(s) :
        /\ neg = 1 => s[1] = "-"
        /\ neg + w <= Len(s)
        /\ \A i \in (neg + 1)..(neg + w) : IsDigit(s[i])
        /\ w = 1 \/ s[neg + 1] # "0"
        /\ \/ neg + w = Len(s)
           \/ /\ neg + w + 2 <= Len(s)
              /\ s[neg + w + 1] = "."
              /\ \A i \in (neg + w + 2)..Len(s) : IsDigit(s[i])

\* a JSON string literal without escapes
IsJSONString(s) ==
    /\ Len(s) >= 2
    /\ s[1] = "\""
    /\ s[Len(s)] = "\""
    /\ \A i \in 2..(Len(s) - 1) : s[i] \notin {"\"", "\\"}

(* json.Unmarshal(s, &doc) into an interface{}, on the strings of the      *)
(* model, which have no white space around them: a number (read as a       *)
(* float64), a string literal, true, false or null. [ok, doc].             *)
Unmarshal(s) ==
    CASE s = <<"t", "r", "u", "e">> -> [ok |-> TRUE, doc |-> GoBool(TRUE)]
      [] s = <<"f", "a", "l", "s", "e">> -> [ok |-> TRUE, doc |-> GoBool(FALSE)]
      [] s = <<"n", "u", "l", "l">> -> [ok |-> TRUE, doc |-> Nil]
      [] IsJSONNumber(s) -> [ok |-> TRUE, doc |-> V("float64", ParseFloat(s).n)]
      [] IsJSONString(s) ->
           [ok |-> TRUE, doc |-> GoString(SubSeq(s, 2, Len(s) - 1))]
      [] OTHER -> [ok |-> FALSE, doc |-> Nil]

\* a string that is a JSON document is written again from the document
\* read, any other value as it is
jsonTConvert(v) ==
    Marshal(IF v.k = "string" /\ Unmarshal(v.v).ok THEN Unmarshal(v.v).doc
            ELSE v)

jsonTCompare(a, b) ==
    IF a.k # "bytes" \/ b.k # "bytes" THEN Panic("interface conversion")
    ELSE Ok(GoInt(BytesCompare(a.v, b.v)))

----------------------------------------------------------------------------
(* Generator: a lazy producer. Next yields the items in order and then     *)
(* io.EOF; the failAt-th call of Next (when failAt > 0) fails with another *)
(* error instead; Close fails when closeErr.                               *)

Generator(items, failAt, closeErr) ==
    V("gen", [items |-> items, failAt |-> failAt, closeErr |-> closeErr])

\* the n-th call of Next on g: [err, val], err one of "", "EOF", "next"
GenNext(g, n) ==
    IF g.v.failAt = n THEN [err |-> "next", val |-> Nil]
    ELSE IF n > Len(g.v.items) THEN [err |-> "EOF", val |-> Nil]
    ELSE [err |-> "", val |-> g.v.items[n]]

\* Close on g: the error it returns, "" for none
GenClose(g) == IF g.v.closeErr THEN "close" ELSE ""

----------------------------------------------------------------------------
(* tupleT and arrayT, and the dispatch of Convert and Compare on the Type. *)

RECURSIVE Convert(_, _)
RECURSIVE Compare(_, _, _)

RECURSIVE ConvertEach(_, _)
\* ConvertEach, had it gone on after a failure and returned the last one
ConvertEachLast(cs, acc) ==
    IF cs = <<>> THEN acc
    ELSE IF Head(cs).st # "ok" /\ \A i \in 2..Len(cs) : cs[i].st = "ok"
    THEN Result(Head(cs).st, Nil, Head(cs).err, acc.pulls, acc.closes)
    ELSE IF Head(cs).st # "ok" THEN ConvertEach(Tail(cs), acc)
    ELSE ConvertEach(Tail(cs),
            Result("ok", GoSlice(Append(acc.val.v, Head(cs).val)), "",
                   acc.pulls, acc.closes))

(* the loop of tupleT.Convert and of arrayT.Convert over a []interface{}:  *)
(* cs[i] is the conversion of the i-th element, taken in order, and the    *)
(* first failure is returned; acc is the result so far.                    *)
ConvertEach(cs, acc) ==
    IF cs = <<>> THEN acc
    ELSE LET c == Head(cs)
             pulls == acc.pulls + c.pulls
             closes == acc.closes + c.closes
         IN IF c.st # "ok" THEN Result(c.st, Nil, c.err, pulls, closes)
            ELSE ConvertEach(Tail(cs),
                    Result("ok", GoSlice(Append(acc.val.v, c.val)), "",
                           pulls, closes))

tupleTConvert(t, v) ==
    IF v.k = "slice"
    THEN IF Len(v.v) # Len(t.elems) THEN Err("ErrInvalidColumnNumber")
         ELSE ConvertEach([i \in 1..Len(v.v) |-> Convert(t.elems[i], v.v[i])],
                          Ok(GoSlice(<<>>)))
    ELSE Err("ErrNotTuple")

RECURSIVE Drain(_, _, _, _)
\* Drain, had it dropped an item that does not convert and gone on
DrainSkipping(g, cs, n, acc) ==
    IF GenNext(g, n).err = "EOF"
    THEN IF GenClose(g) # ""
         THEN Result("err", Nil, GenClose(g), acc.pulls + 1, acc.closes + 1)
         ELSE Result("ok", acc.val, "", acc.pulls + 1, acc.closes + 1)
    ELSE IF GenNext(g, n).err # ""
    THEN Result("err", Nil, GenNext(g, n).err, acc.pulls + 1, acc.closes)
    ELSE Drain(g, cs, n + 1,
           Result("ok",
                  IF cs[n].st # "ok" THEN acc.val
                  ELSE GoSlice(Append(acc.val.v, cs[n].val)),
                  "", acc.pulls + 1, acc.closes))

(* the loop of arrayT.Convert over a Generator g: n - 1 calls of Next were *)
(* made, acc holds the values converted so far and cs[i] is the conversion *)
(* of the i-th item. Close is called after the loop, which only io.EOF     *)
(* leaves by break.                                                        *)
Drain(g, cs, n, acc) ==
    LET nx == GenNext(g, n)
        pulled == Result(acc.st, acc.val, acc.err, acc.pulls + 1, acc.closes)
    IN IF nx.err = "EOF"
       THEN IF GenClose(g) # ""
            THEN Result("err", Nil, GenClose(g), pulled.pulls, pulled.closes + 1)
            ELSE Result("ok", pulled.val, "", pulled.pulls, pulled.closes + 1)
       ELSE IF nx.err # ""
       THEN Result("err", Nil, nx.err, pulled.pulls, pulled.closes)
       ELSE LET c == cs[n]
                pulls == pulled.pulls + c.pulls
                closes == pulled.closes + c.closes
            IN IF c.st # "ok" THEN Result(c.st, Nil, c.err, pulls, closes)
               ELSE Drain(g, cs, n + 1,
                      Result("ok", GoSlice(Append(acc.val.v, c.val)), "",
                             pulls, closes))

arrayTConvert(t, v) ==
    CASE v.k = "slice" ->
           ConvertEach([i \in 1..Len(v.v) |-> Convert(t.elems[1], v.v[i])],
                       Ok(GoSlice(<<>>)))
      [] v.k = "gen" ->
           Drain(v, [i \in 1..Len(v.v.items) |->
                       Convert(t.elems[1], v.v.items[i])],
                 1, Ok(GoSlice(<<>>)))
      [] OTHER -> Err("ErrNotArray")

Convert(t, v) ==
    CASE t.tag = "Null" -> nullTConvert(v)
      [] t \in NumberTypes -> numberTConvert(t, v)
      [] t.tag = "Timestamp" -> timestampTConvert(v)
      [] t.tag = "Date" -> dateTConvert(v)
      [] t.tag = "Text" -> textTConvert(v)
      [] t.tag = "Boolean" -> booleanTConvert(v)
      [] t.tag = "Blob" -> blobTConvert(v)
      [] t.tag = "JSON" -> jsonTConvert(v)
      [] t.tag = "Tuple" -> tupleTConvert(t, v)
      [] t.tag = "Array" -> arrayTConvert(t, v)

RECURSIVE CompareEach(_, _, _)
(* the loop of tupleT.Compare and arrayT.Compare: the first comparison of  *)
(* left[i] and right[i] through types[i] that fails or is not 0, else 0.   *)
CompareEach(types, left, right) ==
    IF left = <<>> THEN Ok(GoInt(0))
    ELSE LET cmp == Compare(Head(types), Head(left), Head(right))
         IN IF cmp.st # "ok" THEN cmp
            ELSE IF cmp.val.v # 0 THEN cmp
            ELSE CompareEach(Tail(types), Tail(left), Tail(right))

\* r with the Generator calls of the two conversions before it
AfterConverts(r, a, b) ==
    [r EXCEPT !.pulls = @ + a.pulls + b.pulls,
              !.closes = @ + a.closes + b.closes]

\* tupleT.Compare after the conversions a and b of its two operands
tupleTCompareConverted(t, a, b) ==
    IF a.st # "ok" THEN a
    ELSE IF b.st # "ok" THEN AfterConverts(b, a, Ok(Nil))
    ELSE AfterConverts(CompareEach(t.elems, a.val.v, b.val.v), a, b)

tupleTCompare(t, a, b) ==
    tupleTCompareConverted(t, tupleTConvert(t, a), tupleTConvert(t, b))

\* arrayTCompareConverted, had it compared the elements before the lengths
arrayTCompareConvertedLex(t, a, b) ==
    IF a.st # "ok" THEN a
    ELSE IF b.st # "ok" THEN AfterConverts(b, a, Ok(Nil))
    ELSE AfterConverts(
           IF \E i \in 1..Len(a.val.v) :
                /\ i <= Len(b.val.v)
                /\ Compare(t.elems[1], a.val.v[i], b.val.v[i]).val.v # 0
           THEN CompareEach([i \in 1..Len(a.val.v) |-> t.elems[1]],
                            [i \in 1..Len(a.val.v) |-> a.val.v[i]],
                            [i \in 1..Len(a.val.v) |->
                               IF i <= Len(b.val.v) THEN b.val.v[i]
                               ELSE a.val.v[i]])
           ELSE Ok(GoInt(ThreeWay(Len(a.val.v), Len(b.val.v)))),
           a, b)

\* arrayT.Compare after the conversions a and b of its two operands: the
\* shorter sequence is the lesser, and sequences of one length compare
\* element by element
arrayTCompareConverted(t, a, b) ==
    LET left == a.val.v
        right == b.val.v
    IN IF a.st # "ok" THEN a
       ELSE IF b.st # "ok" THEN AfterConverts(b, a, Ok(Nil))
       ELSE AfterConverts(
              IF Len(left) < Len(right) THEN Ok(GoInt(-1))
              ELSE IF Len(left) > Len(right) THEN Ok(GoInt(1))
              ELSE CompareEach([i \in 1..Len(left) |-> t.elems[1]], left, right),
              a, b)

arrayTCompare(t, a, b) ==
    arrayTCompareConverted(t, arrayTConvert(t, a), arrayTConvert(t, b))

Compare(t, a, b) ==
    CASE t.tag = "Null" -> nullTCompare(a, b)
      [] t \in NumberTypes -> numberTCompare(t, a, b)
      [] t.tag = "Timestamp" -> timestampTCompare(a, b)
      [] t.tag = "Date" -> dateTCompare(a, b)
      [] t.tag = "Text" -> textTCompare(a, b)
      [] t.tag = "Boolean" -> booleanTCompare(a, b)
      [] t.tag = "Blob" -> blobTCompare(a, b)
      [] t.tag = "JSON" -> jsonTCompare(a, b)
      [] t.tag = "Tuple" -> tupleTCompare(t, a, b)
      [] t.tag = "Array" -> arrayTCompare(t, a, b)

\* tupleT.SQL, had it not passed the Null value through
tupleTSQLNoNull(t, v) == Err("unable to convert tuple type to SQL")

\* tupleT.SQL: the wire NULL for the Null type's own value, else an error
tupleTSQL(t, v) ==
    IF v.k = "nullT" THEN Ok(V("sqltypes.NULL", 0))
    ELSE Err("unable to convert tuple type to SQL")

----------------------------------------------------------------------------
(* The wire tags: Type.Type and MysqlTypeToType.                           *)

\* the query.Type values: the tags of the sqltypes package the model uses
QueryTypes ==
    { "Null", "Int8", "Uint8", "Int16", "Uint16", "Int24", "Uint24", "Int32",
      "Uint32", "Int64", "Uint64", "Float32", "Float64", "Timestamp", "Date",
      "Time", "Datetime", "Year", "Decimal", "Text", "Blob", "VarChar",
      "VarBinary", "Char", "Binary", "Bit", "Enum", "Set", "Geometry",
      "TypeJSON", "Expression" }

\* t.Type(): the wire tag of the Type t; a numberT holds its own
Type(t) ==
    CASE t.tag = "Null" -> "Null"
      [] t \in NumberTypes -> t.tag
      [] t.tag = "Timestamp" -> "Timestamp"
      [] t.tag = "Date" -> "Date"
      [] t.tag = "Text" -> "Text"
      [] t.tag = "Boolean" -> "Bit"
      [] t.tag = "Blob" -> "Blob"
      [] t.tag = "JSON" -> "TypeJSON"
      [] t.tag = "Tuple" -> "Expression"
      [] t.tag = "Array" -> "TypeJSON"

\* MysqlTypeToType, had it had no case for Bit
MysqlTypeToTypeNoBit(sql) ==
    CASE sql = "Null" -> Ok(Null)
      [] sql = "Int8" -> Ok(Int8)
      [] sql = "Uint8" -> Ok(Uint8)
      [] sql = "Int16" -> Ok(Int16)
      [] sql = "Uint16" -> Ok(Uint16)
      [] sql = "Int32" -> Ok(Int32)
      [] sql = "Int64" -> Ok(Int64)
      [] sql = "Uint32" -> Ok(Uint32)
      [] sql = "Uint64" -> Ok(Uint64)
      [] sql = "Float32" -> Ok(Float32)
      [] sql = "Float64" -> Ok(Float64)
      [] sql = "Timestamp" -> Ok(Timestamp)
      [] sql = "Date" -> Ok(Date)
      [] sql \in {"Text", "VarChar"} -> Ok(Text)
      [] sql = "TypeJSON" -> Ok(JSON)
      [] sql = "Blob" -> Ok(Blob)
      [] OTHER -> Err("ErrTypeNotSupported")

\* the result holds the Type; the error's result holds the nil Type
MysqlTypeToType(sql) ==
    CASE sql = "Null" -> Ok(Null)
      [] sql = "Int8" -> Ok(Int8)
      [] sql = "Uint8" -> Ok(Uint8)
      [] sql = "Int16" -> Ok(Int16)
      [] sql = "Uint16" -> Ok(Uint16)
      [] sql = "Int32" -> Ok(Int32)
      [] sql = "Int64" -> Ok(Int64)
      [] sql = "Uint32" -> Ok(Uint32)
      [] sql = "Uint64" -> Ok(Uint64)
      [] sql = "Float32" -> Ok(Float32)
      [] sql = "Float64" -> Ok(Float64)
      [] sql = "Timestamp" -> Ok(Timestamp)
      [] sql = "Date" -> Ok(Date)
      [] sql \in {"Text", "VarChar"} -> Ok(Text)
      [] sql = "Bit" -> Ok(Boolean)
      [] sql = "TypeJSON" -> Ok(JSON)
      [] sql = "Blob" -> Ok(Blob)
      [] OTHER -> Err("ErrTypeNotSupported")

----------------------------------------------------------------------------
(* Column and Schema.                                                      *)

Column(name, type, nullable) ==
    [Name |-> name, Type |-> type, Nullable |-> nullable]

\* the outcome of Column.Check: "true", "false" or "panic"
Check(c, v) ==
    IF v = Nil THEN (IF c.Nullable THEN "true" ELSE "false")
    ELSE [ok |-> "true", err |-> "false", panic |-> "panic"][
             Convert(c.Type, v).st]

RECURSIVE CheckColumns(_, _, _)
(* the loop of Schema.CheckRow from position idx (counted from 0), oks[i]  *)
(* the outcome of the i-th column's Check of the i-th value. For a         *)
(* rejected value the error names reflect.TypeOf(v).String(): TypeOf(nil)  *)
(* is the nil Type, and the call of String on it panics.                   *)
CheckColumns(row, oks, idx) ==
    IF idx >= Len(row) THEN Ok(Nil)
    ELSE CASE oks[idx + 1] = "true" -> CheckColumns(row, oks, idx + 1)
           [] oks[idx + 1] = "panic" -> Panic("interface conversion")
           [] OTHER ->
                IF row[idx + 1] = Nil THEN Panic("nil pointer dereference")
                ELSE Result("err", V("idx", idx), "ErrUnexpectedType", 0, 0)

CheckRow(s, row) ==
    IF Len(s) # Len(row) THEN Err("ErrUnexpectedRowLength")
    ELSE CheckColumns(row, [i \in 1..Len(s) |-> Check(s[i], row[i])], 0)

----------------------------------------------------------------------------
(* The inputs of the model.                                                *)

IntInputs ==
    {V(k, n) : k \in SignedKinds, n \in -MaxInt..MaxInt}
    \cup {V(k, n) : k \in UnsignedKinds, n \in 0..MaxInt}
    \cup {GoInt(3), GoInt(5)}

\* -0.5, 0, 0.4, 0.5, 1.2 and 1.7 in both widths
FloatInputs == {V(k, x) : k \in FloatKinds, x \in {-5, 0, 4, 5, 12, 17}}

StringInputs ==
    { GoString(s) : s \in
        { <<>>, <<"1">>, <<"-", "1">>, <<"1", ".", "5">>, <<"a">>, <<"t", "r", "u", "e">>,
          <<"\"", "a", "\"">>,
          <<"1", "9", "7", "0", "-", "0", "1", "-", "0", "2">>,
          <<"1", "9", "7", "0", "-", "0", "1", "-", "0", "2", " ", "0", "0", ":", "0", "0", ":", "0", "1">>,
          <<"1", "9", "7", "0", "-", "0", "2", "-", "3", "0">>,
          <<"1", "9", "7", "0", "-", "0", "1", "-", "0", "2", "T", "0", "1", ":", "0", "0", ":", "0", "0", "+", "0", "1", ":", "0", "0">>,
          <<"1", "9", "7", "0", "0", "1", "0", "2">> } }

BytesInputs == {GoBytes(s) : s \in {<<>>, <<"a">>, <<"a", "b">>, <<"1">>}}

TimeInputs ==
    { GoTime(0, 0, UTCLoc), GoTime(0, 500000000, UTCLoc), GoTime(1, 0, Local),
      GoTime(-1, 0, UTCLoc), GoTime(86400, 0, UTCLoc), GoTime(86401, 0, Local) }

DurationInputs == {V("duration", d) : d \in {0, 1, 1000000000}}

\* a channel: a value no conversion has a rule for
Chan == V("chan", 0)

ScalarInputs ==
    {Nil, Chan, GoBool(TRUE), GoBool(FALSE)} \cup IntInputs \cup FloatInputs
    \cup StringInputs \cup BytesInputs \cup TimeInputs \cup DurationInputs

\* the elements of the sequences, rows and generators of the model
Sample ==
    {Nil, Chan, GoInt(1), V("float64", 12), V("float64", 17), GoString(<<"a">>)}

SeqsOver(S, n) == UNION {[1..k -> S] : k \in 0..n}

Slices == {GoSlice(s) : s \in SeqsOver(Sample, MaxLen)}

Generators ==
    { Generator(items, failAt, closeErr) :
        items \in SeqsOver(Sample, MaxLen), failAt \in 0..(MaxLen + 1),
        closeErr \in BOOLEAN }

\* the sequences given to a type with a composite element type
NestedSlices ==
    { GoSlice(s) : s \in SeqsOver(
        { GoSlice(<<>>), GoSlice(<<GoInt(1)>>), GoSlice(<<GoString(<<"a">>)>>),
          GoSlice(<<GoInt(1), GoString(<<"a">>)>>), GoSlice(<<Chan>>),
          Generator(<<GoInt(1)>>, 0, FALSE), Generator(<<Chan>>, 0, FALSE),
          GoInt(1) }, MaxLen) }

ScalarTypes ==
    NumberTypes \cup {Null, Timestamp, Date, Text, Boolean, JSON, Blob}

TupleTypes ==
    { Tuple(<<Int64>>), Tuple(<<Int64, Text>>), Tuple(<<Float64, Boolean>>),
      Tuple(<<JSON, Blob>>), Tuple(<<Null, Timestamp>>),
      Tuple(<<Array(Int64), Int64>>) }

ArrayTypes ==
    { Array(Int64), Array(Uint64), Array(Float64), Array(Blob), Array(Int8),
      Array(Tuple(<<Int64, Text>>)), Array(Array(Int64)) }

Types == ScalarTypes \cup TupleTypes \cup ArrayTypes

IsComposite(t) == t.tag \in {"Tuple", "Array"}

(* the values Convert of t is given. A text whose digits pass the integers *)
(* of TLC is given to the types that do not read it as a number; a type    *)
(* with a composite element type is given sequences of sequences.          *)
Inputs(t) ==
    IF ~IsComposite(t)
    THEN ScalarInputs
         \cup (IF t \in {Timestamp, Date, Text, Blob}
               THEN {GoString(<<"1", "9", "7", "0", "0", "1", "0", "2",
                                "0", "0", "0", "0", "0", "1">>)}
               ELSE {})
    ELSE IF \E i \in 1..Len(t.elems) : IsComposite(t.elems[i])
    THEN NestedSlices \cup {GoInt(1)}
    ELSE Slices \cup (IF t.tag = "Array" THEN Generators ELSE {})
         \cup {GoInt(1)}

\* the canonical values of each type: what Convert returns for its inputs
Canon ==
    [t \in Types |->
        {r.val : r \in {c \in {Convert(t, v) : v \in Inputs(t)} : c.st = "ok"}}]

\* the values Compare of t is given: canonical ones, and others; Date is
\* given instants within a day too
CompareInputs(t) ==
    Canon[t] \cup (IF t \in NumberTypes THEN IntInputs \cup FloatInputs
                   ELSE IF t = Date
                   THEN TimeInputs \cup {GoInt(1), GoString(<<"a">>)}
                   ELSE {GoInt(1), GoString(<<"a">>)})

Schemas ==
    { <<Column("a", Int64, FALSE)>>,
      <<Column("a", Int64, FALSE), Column("b", Text, TRUE)>>,
      <<Column("a", Int64, TRUE), Column("b", Boolean, FALSE),
        Column("c", Int8, TRUE)>> }

Rows == SeqsOver(Sample \cup {V("float32", 12)}, MaxLen + 1)

\* the Null type's own value, which every SQL method passes through
NullValue == V("nullT", 0)

SQLInputs == ScalarInputs \cup Slices \cup {NullValue}

----------------------------------------------------------------------------
(* The specification: a caller makes one call after another; op, recv and  *)
(* args are the call made last and ret is what it returned.                *)

Init ==
    /\ op = "idle"
    /\ recv = Null
    /\ args = <<>>
    /\ ret = Ok(Nil)
    /\ clients = 0
    /\ db = "nil"
    /\ bucket = [k \in {} |-> 0]
    /\ pc = [p \in 1..MaxProcs |-> "idle"]
    /\ arg = [p \in 1..MaxProcs |-> Nil]

ConvertCall ==
    /\ op = "idle"
    /\ \E t \in Types : \E v \in Inputs(t) :
         /\ op' = "Convert"
         /\ recv' = t
         /\ args' = <<v>>
         /\ ret' = Convert(t, v)
    /\ UNCHANGED <<clients, db, bucket, pc, arg>>

CompareCall ==
    /\ op = "idle"
    /\ \E t \in Types : \E a, b \in CompareInputs(t) :
         /\ op' = "Compare"
         /\ recv' = t
         /\ args' = <<a, b>>
         /\ ret' = Compare(t, a, b)
    /\ UNCHANGED <<clients, db, bucket, pc, arg>>

SQLCall ==
    /\ op = "idle"
    /\ \E t \in TupleTypes : \E v \in SQLInputs :
         /\ op' = "SQL"
         /\ recv' = t
         /\ args' = <<v>>
         /\ ret' = tupleTSQL(t, v)
    /\ UNCHANGED <<clients, db, bucket, pc, arg>>

CheckRowCall ==
    /\ op = "idle"
    /\ \E s \in Schemas : \E row \in Rows :
         /\ op' = "CheckRow"
         /\ recv' = s
         /\ args' = <<row>>
         /\ ret' = CheckRow(s, row)
    /\ UNCHANGED <<clients, db, bucket, pc, arg>>

TypeCall ==
    /\ op = "idle"
    /\ \E t \in Types :
         /\ op' = "Type"
         /\ recv' = t
         /\ args' = <<>>
         /\ ret' = Ok(V("query.Type", Type(t)))
    /\ UNCHANGED <<clients, db, bucket, pc, arg>>

MysqlTypeToTypeCall ==
    /\ op = "idle"
    /\ \E sql \in QueryTypes :
         /\ op' = "MysqlTypeToType"
         /\ recv' = Null
         /\ args' = <<V("query.Type", sql)>>
         /\ ret' = MysqlTypeToType(sql)
    /\ UNCHANGED <<clients, db, bucket, pc, arg>>

\* the caller takes the result
Return ==
    /\ op # "idle"
    /\ op' = "idle"
    /\ recv' = Null
    /\ args' = <<>>
    /\ ret' = Ok(Nil)
    /\ UNCHANGED <<clients, db, bucket, pc, arg>>

Next ==
    \/ ConvertCall
    \/ CompareCall
    \/ SQLCall
    \/ CheckRowCall
    \/ TypeCall
    \/ MysqlTypeToTypeCall
    \/ Return

Spec == Init /\ [][Next]_vars

----------------------------------------------------------------------------
(* The mapping of the pilosa index driver. Its fields are clients, the     *)
(* count of open clients, and db, the handle of the bolt database: "nil"   *)
(* or "open". bucket is the bucket of one frame in the database file, a    *)
(* function from the keys put so far to their row ids; the file outlives   *)
(* the handle. The goroutine p is in pc[p]: "idle", or in close holding    *)
(* clientMut ("close"), or in query after its Unlock ("query"), or holding *)
(* the read lock of mut before the call of fn ("fn"); arg[p] is the value  *)
(* its getRowID was given. clientMut is held when a goroutine is in        *)
(* "close", and mut is read-locked when one is in "fn"; mut is not         *)
(* write-locked between two steps, since a step takes in the whole section *)
(* under the write lock. op, args and ret are the step taken last and what *)
(* it returned.                                                            *)

\* the values getRowID is given: the values of a column, nil among them
Values == {Nil} \cup {V("int64", n) : n \in 1..MaxValue}

\* Encode, had it left the number out of the bytes
EncodeNoPayload(v) ==
    [ok |-> v # Nil, key |-> [wire |-> "int", v |-> 0]]

(* gob.NewEncoder(&buf).Encode(value) and buf.Bytes(): [ok, key]. gob has  *)
(* one wire type for the signed integers of every width, one for the       *)
(* unsigned ones and one for the floats, and the bytes hold the wire type  *)
(* and the value; nil is not encoded.                                      *)
Encode(v) ==
    [ok |-> v # Nil,
     key |-> [wire |-> CASE v.k \in SignedKinds -> "int"
                         [] v.k \in UnsignedKinds -> "uint"
                         [] v.k \in FloatKinds -> "float"
                         [] OTHER -> v.k,
              v |-> v.v]]

\* mapping.open, under clientMut
open ==
    \E p \in 1..MaxProcs :
        /\ pc[p] = "idle"
        /\ \A q \in 1..MaxProcs : pc[q] # "close"
        /\ clients < MaxClients
        /\ clients' = clients + 1
        /\ op' = "open"
        /\ recv' = Null
        /\ args' = <<>>
        /\ ret' = Ok(Nil)
        /\ UNCHANGED <<db, bucket, pc, arg>>

\* close, had it taken every client for the last one
closeEveryClient ==
    \E p \in 1..MaxProcs :
        /\ pc[p] = "idle"
        /\ \A q \in 1..MaxProcs : pc[q] # "close"
        /\ clients' = 0
        /\ pc' = [pc EXCEPT ![p] = "close"]
        /\ op' = "close"
        /\ recv' = Null
        /\ args' = <<>>
        /\ ret' = Ok(Nil)
        /\ UNCHANGED <<db, bucket, arg>>

(* mapping.close to the reset of the count: with more than one client it   *)
(* returns after the decrement, else it goes on, holding clientMut.        *)
close ==
    \E p \in 1..MaxProcs :
        /\ pc[p] = "idle"
        /\ \A q \in 1..MaxProcs : pc[q] # "close"
        /\ IF clients > 1
           THEN clients' = clients - 1 /\ pc' = pc
           ELSE clients' = 0 /\ pc' = [pc EXCEPT ![p] = "close"]
        /\ op' = "close"
        /\ recv' = Null
        /\ args' = <<>>
        /\ ret' = Ok(Nil)
        /\ UNCHANGED <<db, bucket, arg>>

(* the rest of mapping.close, under the write lock of mut, which waits for *)
(* the readers: an open handle is closed and set to nil, or left as it is  *)
(* when db.Close fails.                                                    *)
closeDB ==
    \E p \in 1..MaxProcs : \E failed \in BOOLEAN :
        /\ pc[p] = "close"
        /\ \A q \in 1..MaxProcs : pc[q] # "fn"
        /\ IF db # "nil" /\ failed
           THEN db' = db /\ ret' = Err("close")
           ELSE db' = "nil" /\ ret' = Ok(Nil)
        /\ pc' = [pc EXCEPT ![p] = "idle"]
        /\ op' = "close"
        /\ recv' = Null
        /\ args' = <<>>
        /\ UNCHANGED <<clients, bucket, arg>>

(* getRowID(frameName, v) calls mapping.query, which under the write lock  *)
(* of mut opens the database when the handle is nil; it returns the error  *)
(* of a failed bolt.Open, and else unlocks mut.                            *)
query ==
    \E p \in 1..MaxProcs : \E v \in Values : \E failed \in BOOLEAN :
        /\ pc[p] = "idle"
        /\ \A q \in 1..MaxProcs : pc[q] # "fn"
        /\ IF db = "nil" /\ failed
           THEN db' = db /\ pc' = pc /\ arg' = arg /\ ret' = Err("open")
           ELSE /\ db' = "open"
                /\ pc' = [pc EXCEPT ![p] = "query"]
                /\ arg' = [arg EXCEPT ![p] = v]
                /\ ret' = Ok(Nil)
        /\ op' = "query"
        /\ recv' = Null
        /\ args' = <<v>>
        /\ UNCHANGED <<clients, bucket>>

\* mapping.query takes the read lock of mut; the call of fn is next
queryRLock ==
    \E p \in 1..MaxProcs :
        /\ pc[p] = "query"
        /\ pc' = [pc EXCEPT ![p] = "fn"]
        /\ op' = "query"
        /\ recv' = Null
        /\ args' = <<arg[p]>>
        /\ ret' = Ok(Nil)
        /\ UNCHANGED <<clients, db, bucket, arg>>

(* the function getRowID gives to query, and the return of both: m.db is   *)
(* dereferenced, which panics on nil; the value is encoded; in one         *)
(* transaction of the database the id of the key is read or, for a new     *)
(* key, the count of the keys of the bucket is put as its id. A            *)
(* transaction that fails leaves the bucket as it was.                     *)
getRowID ==
    \E p \in 1..MaxProcs : \E committed \in BOOLEAN :
        /\ pc[p] = "fn"
        /\ IF db = "nil"
           THEN bucket' = bucket /\ ret' = Panic("nil pointer dereference")
           ELSE IF ~Encode(arg[p]).ok
           THEN bucket' = bucket /\ ret' = Err("gob")
           ELSE IF Encode(arg[p]).key \in DOMAIN bucket
           THEN /\ bucket' = bucket
                /\ ret' = Ok(V("uint64", bucket[Encode(arg[p]).key]))
           ELSE IF ~committed
           THEN bucket' = bucket /\ ret' = Err("bolt")
           ELSE /\ bucket' = [k \in DOMAIN bucket \cup {Encode(arg[p]).key} |->
                                IF k \in DOMAIN bucket THEN bucket[k]
                                ELSE Cardinality(DOMAIN bucket)]
                /\ ret' = Ok(V("uint64", Cardinality(DOMAIN bucket)))
        /\ pc' = [pc EXCEPT ![p] = "idle"]
        /\ arg' = [arg EXCEPT ![p] = Nil]
        /\ op' = "getRowID"
        /\ recv' = Null
        /\ args' = <<arg[p]>>
        /\ UNCHANGED <<clients, db>>

MappingNext ==
    \/ open
    \/ close
    \/ closeDB
    \/ query
    \/ queryRLock
    \/ getRowID

MappingSpec == Init /\ [][MappingNext]_vars

----------------------------------------------------------------------------
(* The claims.                                                             *)

\* the call made last was Convert of type t
Converted(t) == op = "Convert" /\ recv = t

\* C1: Array(U).Convert of a Generator calls the Generator's Close exactly
\* once on every exit path: after the drain to end-of-input, after an
\* element fails conversion and after Next fails.
C1_ClosedExactlyOnce ==
    (op = "Convert" /\ recv.tag = "Array" /\ args[1].k = "gen")
        => ret.closes = 1

\* the lowest position of the row that the schema's column rejects is i
\* (counted from 1) and it holds nil
FirstRejectedIsNil(s, row, i) ==
    /\ row[i] = Nil
    /\ ~s[i].Nullable
    /\ \A j \in 1..(i - 1) : Check(s[j], row[j]) = "true"

\* C2: Schema.CheckRow never panics, and a row of the schema's length with
\* nil at a non-nullable column is rejected with ErrUnexpectedType naming
\* that position.
C2_NilRejectedByError ==
    op = "CheckRow" =>
        /\ ret.st # "panic"
        /\ \A i \in 1..Len(recv) :
             (Len(args[1]) = Len(recv) /\ FirstRejectedIsNil(recv, args[1], i))
                 => /\ ret.st = "err"
                    /\ ret.err = "ErrUnexpectedType"
                    /\ ret.val = V("idx", i - 1)

\* C3: Boolean.Convert of an input of any integer kind is true iff the
\* input is not zero.
C3_IntegerTrueIffNonzero ==
    (Converted(Boolean) /\ args[1].k \in IntKinds)
        => ret.st = "ok" /\ ret.val = GoBool(args[1].v # 0)

\* the Go type of the canonical values of the Number variant t
KindOf(t) ==
    CASE t = Int8 -> "int8" [] t = Uint8 -> "uint8"
      [] t = Int16 -> "int16" [] t = Uint16 -> "uint16"
      [] t = Int32 -> "int32" [] t = Uint32 -> "uint32"
      [] t = Int64 -> "int64" [] t = Uint64 -> "uint64"
      [] t = Float32 -> "float32" [] t = Float64 -> "float64"

\* the integer n is in the range of the Number variant t
InRange(t, n) ==
    CASE t = Int8 -> n >= -128 /\ n <= 127
      [] t = Uint8 -> n >= 0 /\ n <= 255
      [] t = Int16 -> n >= -32768 /\ n <= 32767
      [] t = Uint16 -> n >= 0 /\ n <= 65535
      [] t \in {Uint32, Uint64} -> n >= 0
      [] OTHER -> TRUE

\* the integer of an integer or timestamp input
IntegerOf(v) == IF v.k = "time" THEN v.v.sec ELSE v.v

\* C4: every Number variant converts an integer input in its range, and a
\* timestamp by its Unix seconds, to that number in the variant's width.
C4_NumberConvertsIntegers ==
    ( /\ op = "Convert"
      /\ recv \in NumberTypes
      /\ args[1].k \in IntKinds \cup {"time"}
      /\ InRange(recv, IntegerOf(args[1])) )
        => /\ ret.st = "ok"
           /\ ret.val = V(KindOf(recv),
                          IF IsDecimal(recv) THEN IntegerOf(args[1]) * 10
                          ELSE IntegerOf(args[1]))

\* C5: when t.Convert(v) succeeds with c, t.Convert(c) succeeds too and
\* t.Compare(c, c) is 0 without error.
C5_ConvertIdempotent ==
    (op = "Convert" /\ ret.st = "ok")
        => /\ Convert(recv, ret.val).st = "ok"
           /\ Compare(recv, ret.val, ret.val).st = "ok"
           /\ Compare(recv, ret.val, ret.val).val = GoInt(0)

\* a conversion that changed its input succeeded, on a composite type
C5_Witness ==
    /\ op = "Convert"
    /\ IsComposite(recv)
    /\ ret.st = "ok"
    /\ ret.val # args[1]
    /\ Len(ret.val.v) > 1

\* the call made last was Compare of two canonical values of its type
ComparedCanonical ==
    op = "Compare" /\ args[1] \in Canon[recv] /\ args[2] \in Canon[recv]

\* C6: on the canonical values of every type, Tuple and Array types
\* included, Compare is antisymmetric and transitive.
C6_CompareTotalOrder ==
    ComparedCanonical =>
        LET a == args[1]
            b == args[2]
            ba == Compare(recv, b, a)
        IN /\ ret.st = "ok"
           /\ ba.st = "ok"
           /\ ret.val.v = -ba.val.v
           /\ \A c \in Canon[recv] :
                (ret.val.v <= 0 /\ Compare(recv, b, c).val.v <= 0)
                    => Compare(recv, a, c).val.v <= 0

\* two canonical values of a composite type compared as less, the second
\* one less than a third
C6_Witness ==
    /\ ComparedCanonical
    /\ IsComposite(recv)
    /\ ret.val = GoInt(-1)
    /\ \E c \in Canon[recv] : Compare(recv, args[2], c).val = GoInt(-1)

\* C7: Number.Compare of two canonical values of the variant, the float
\* widths included, is 0 exactly when they are equal as numbers, -1 when
\* the first is less and 1 when it is greater.
C7_CompareIsNumeric ==
    (ComparedCanonical /\ recv \in NumberTypes)
        => ret.st = "ok" /\ ret.val = GoInt(ThreeWay(args[1].v, args[2].v))

\* C8: Number.Compare compares as unsigned 64-bit integers for Uint32 and
\* Uint64 and as signed ones for every other variant, Uint8 and Uint16
\* included: Int16.Compare(5, 3) and Uint16.Compare(5, 3) are both 1.
C8_UnsignedPathOnly32And64 ==
    (op = "Compare" /\ recv \in NumberTypes)
        => /\ ret = IF recv \in {Uint32, Uint64}
                    THEN compareUnsigned(args[1], args[2])
                    ELSE compareSigned(args[1], args[2])
           /\ (recv \in {Int16, Uint16} /\ args = <<GoInt(5), GoInt(3)>>)
                 => ret = Ok(GoInt(1))

\* Uint16 compared two values on which the two paths differ
C8_Witness ==
    /\ op = "Compare"
    /\ recv = Uint16
    /\ compareSigned(args[1], args[2]) # compareUnsigned(args[1], args[2])
    /\ ret = compareSigned(args[1], args[2])

\* C9: Boolean.Convert of a floating-point input of either width returns,
\* without error or panic, true iff the input rounds to a nonzero integer.
C9_FloatTrueIffRoundsNonzero ==
    (Converted(Boolean) /\ args[1].k \in FloatKinds)
        => ret.st = "ok" /\ ret.val = GoBool(RoundFloat(args[1].v) # 0)

\* C10, as claimed: tupleT.SQL returns an error for every input value.
C10_SQLAlwaysFails == op = "SQL" => ret.st = "err"

\* C10, amended: tupleT.SQL returns an error for every input value but the
\* Null type's own value, for which it returns the wire NULL and no error.
C10_SQLFailsUnlessNull ==
    op = "SQL" =>
        IF args[1] = NullValue THEN ret = Ok(V("sqltypes.NULL", 0))
        ELSE ret.st = "err"

\* the SQL of a tuple type was asked for a sequence, and for the Null value
C10_Witness == op = "SQL" /\ args[1].k \in {"slice", "nullT"}

\* the primary layout of Timestamp followed by its fallback layouts
LayoutsInOrder == <<TimestampLayout>> \o TimestampLayouts

\* the positions of the layouts of LayoutsInOrder that accept the text s
Accepting(s) ==
    {i \in 1..Len(LayoutsInOrder) : TimeParse(LayoutsInOrder[i], s).ok}

\* C11: Timestamp.Convert of a text returns the parse under the first
\* layout, in the order primary, date-only, RFC3339, YYYYMMDDHHMMSS,
\* YYYYMMDD, that accepts the text, in UTC; it fails with
\* ErrConvertingToTime exactly when no layout accepts the text; a date-only
\* text gives midnight UTC of its date.
C11_FirstLayoutWins ==
    (Converted(Timestamp) /\ args[1].k = "string") =>
        /\ LayoutsInOrder[2] = DateLayout
        /\ LayoutsInOrder[3] = RFC3339
        /\ IF Accepting(args[1].v) = {}
           THEN ret = Err("ErrConvertingToTime")
           ELSE \E i \in Accepting(args[1].v) :
                  /\ \A j \in Accepting(args[1].v) : i <= j
                  /\ ret = Ok(UTC(TimeParse(LayoutsInOrder[i], args[1].v).t))
        /\ 2 \in Accepting(args[1].v) =>
             /\ ret.st = "ok"
             /\ ret.val.v.sec % 86400 = 0
             /\ ret.val.v.nsec = 0
             /\ ret.val.v.loc = UTCLoc
        /\ args[1].v = <<"1", "9", "7", "0", "-", "0", "1", "-", "0", "2">>
             => ret = Ok(GoTime(86400, 0, UTCLoc))

\* a text that only a fallback layout accepts, with an offset from UTC, was
\* converted
C11_Witness ==
    /\ Converted(Timestamp)
    /\ args[1].k = "string"
    /\ Accepting(args[1].v) = {3}
    /\ TimeParse(RFC3339, args[1].v).t.v.loc # UTCLoc
    /\ ret.st = "ok"
    /\ ret.val.v.loc = UTCLoc

\* the instant of the time value v is the start of a UTC day
AtDayStart(v) == v.k = "time" /\ v.v.sec % 86400 = 0 /\ v.v.nsec = 0

\* the time values a and b are instants of one UTC day
SameDay(a, b) ==
    a.k = "time" /\ b.k = "time" /\ a.v.sec \div 86400 = b.v.sec \div 86400

\* C12: every value a successful Date.Convert returns, from a timestamp, a
\* date-only text or an integer of epoch seconds, is the start of a UTC day,
\* and Date.Compare is 0 for two instants of one UTC day.
C12_DateAtDayStart ==
    /\ (Converted(Date) /\ ret.st = "ok") => AtDayStart(ret.val)
    /\ (op = "Compare" /\ recv = Date /\ SameDay(args[1], args[2]))
         => ret = Ok(GoInt(0))

\* Date compared two different instants of one day, the first one not at
\* the start of the day and converted by Date to that start
C12_Witness ==
    /\ op = "Compare"
    /\ recv = Date
    /\ SameDay(args[1], args[2])
    /\ args[1].v.sec # args[2].v.sec
    /\ ~AtDayStart(args[1])
    /\ AtDayStart(dateTConvert(args[1]).val)
    /\ ret = Ok(GoInt(0))

\* the positions of the sequence vs whose element the type of that position
\* in types does not convert
Failing(types, vs) ==
    {i \in 1..Len(vs) : Convert(types[i], vs[i]).st # "ok"}

\* C13: Tuple(T1..Tn).Convert succeeds only on a sequence of exactly n
\* elements, and returns the sequence of Ti.Convert of the i-th element; a
\* sequence of another length fails with ErrInvalidColumnNumber, a value
\* that is no sequence with ErrNotTuple, and the failure of the first
\* element that does not convert is returned as it is.
C13_TupleConvert ==
    (op = "Convert" /\ recv.tag = "Tuple") =>
        IF args[1].k # "slice" THEN ret = Err("ErrNotTuple")
        ELSE IF Len(args[1].v) # Len(recv.elems)
        THEN ret = Err("ErrInvalidColumnNumber")
        ELSE IF Failing(recv.elems, args[1].v) = {}
        THEN /\ ret.st = "ok"
             /\ ret.val = GoSlice([i \in 1..Len(recv.elems) |->
                                     Convert(recv.elems[i], args[1].v[i]).val])
        ELSE \E i \in Failing(recv.elems, args[1].v) :
               /\ \A j \in Failing(recv.elems, args[1].v) : i <= j
               /\ ret.st = Convert(recv.elems[i], args[1].v[i]).st
               /\ ret.err = Convert(recv.elems[i], args[1].v[i]).err
               /\ ret.val = Nil

\* a tuple type converted a sequence of its length of which two elements
\* fail with different errors
C13_Witness ==
    /\ op = "Convert"
    /\ recv.tag = "Tuple"
    /\ args[1].k = "slice"
    /\ Len(args[1].v) = Len(recv.elems)
    /\ Failing(recv.elems, args[1].v) = {1, 2}
    /\ Convert(recv.elems[1], args[1].v[1]).err
         # Convert(recv.elems[2], args[1].v[2]).err
    /\ ret.err = Convert(recv.elems[1], args[1].v[1]).err

\* the positions of the row whose value the schema's column does not accept
Rejected(s, row) == {i \in 1..Len(s) : Check(s[i], row[i]) # "true"}

\* C14: Schema.CheckRow returns ErrUnexpectedRowLength whenever the row and
\* the schema differ in length; for a row of the schema's length without
\* nil it returns no error iff the Check of every column accepts the value
\* of its position, and else ErrUnexpectedType naming the lowest position
\* that was not accepted.
C14_CheckRowByPosition ==
    op = "CheckRow" =>
        /\ Len(args[1]) # Len(recv) => ret = Err("ErrUnexpectedRowLength")
        /\ (Len(args[1]) = Len(recv) /\ \A i \in 1..Len(recv) : args[1][i] # Nil)
             => IF Rejected(recv, args[1]) = {} THEN ret = Ok(Nil)
                ELSE \E i \in Rejected(recv, args[1]) :
                       /\ \A j \in Rejected(recv, args[1]) : i <= j
                       /\ ret.st = "err"
                       /\ ret.err = "ErrUnexpectedType"
                       /\ ret.val = V("idx", i - 1)

\* the positions at which the sequences left and right of values of the
\* type u differ under u.Compare
Differing(u, left, right) ==
    {i \in 1..Len(left) : Compare(u, left[i], right[i]).val.v # 0}

\* the order of the sequences left and right of values of the type u: by
\* length, and for one length by the first position that differs
ArrayOrder(u, left, right) ==
    IF Len(left) # Len(right) THEN ThreeWay(Len(left), Len(right))
    ELSE IF Differing(u, left, right) = {} THEN 0
    ELSE Compare(u, left[CHOOSE i \in Differing(u, left, right) :
                           \A j \in Differing(u, left, right) : i <= j],
                 right[CHOOSE i \in Differing(u, left, right) :
                           \A j \in Differing(u, left, right) : i <= j]).val.v

\* C15: Array(U).Compare of two sequences that Array(U) converts orders by
\* length first, the shorter one -1 against the longer whatever their
\* elements; sequences of one length compare as the first position at
\* which U.Compare is not 0, and as 0 when there is none.
C15_ArrayLengthFirst ==
    ( /\ op = "Compare"
      /\ recv.tag = "Array"
      /\ arrayTConvert(recv, args[1]).st = "ok"
      /\ arrayTConvert(recv, args[2]).st = "ok" )
        => /\ ret.st = "ok"
           /\ ret.val = GoInt(ArrayOrder(recv.elems[1],
                                         arrayTConvert(recv, args[1]).val.v,
                                         arrayTConvert(recv, args[2]).val.v))
           /\ Len(args[1].v) < Len(args[2].v) => ret.val = GoInt(-1)

\* an array type compared a sequence with a longer one whose first element
\* is the lesser
C15_Witness ==
    /\ op = "Compare"
    /\ recv.tag = "Array"
    /\ args[1].k = "slice"
    /\ args[2].k = "slice"
    /\ Len(args[1].v) > 0
    /\ Len(args[1].v) < Len(args[2].v)
    /\ Compare(recv.elems[1], args[1].v[1], args[2].v[1]).val = GoInt(1)
    /\ ret = Ok(GoInt(-1))

\* the wire tags MysqlTypeToType has a case for: those of the types that
\* are not composite, and VarChar
MappedTags == {Type(t) : t \in ScalarTypes} \cup {"VarChar"}

\* C16: for every Type t that is not composite, MysqlTypeToType(t.Type())
\* returns t and no error; for a wire tag outside the mapped set, the
\* Expression tag that a Tuple reports among them, it returns
\* ErrTypeNotSupported and no Type.
C16_WireTagRoundTrip ==
    /\ (op = "Type" /\ ~IsComposite(recv))
         => MysqlTypeToType(ret.val.v) = Ok(recv)
    /\ (op = "Type" /\ recv.tag = "Tuple")
         => /\ ret.val.v = "Expression"
            /\ MysqlTypeToType(ret.val.v) = Err("ErrTypeNotSupported")
    /\ (op = "MysqlTypeToType" /\ args[1].v \notin MappedTags)
         => ret = Err("ErrTypeNotSupported")

\* Boolean reported its wire tag, which is not its name, and the tag maps
\* back to Boolean
C16_Witness ==
    /\ op = "Type"
    /\ recv = Boolean
    /\ ret.val.v # recv.tag
    /\ MysqlTypeToType(ret.val.v).val = Boolean

\* the n-th call of Next on the Generator g ends the loop of Array(u): it
\* fails, reports the end of input, or yields an item u does not convert
Stops(u, g, n) ==
    GenNext(g, n).err # "" \/ Convert(u, GenNext(g, n).val).st # "ok"

\* the call of Next that ends the loop: the first one that stops it
LastPull(u, g) ==
    CHOOSE n \in 1..(Len(g.v.items) + 1) :
        Stops(u, g, n) /\ \A m \in 1..(n - 1) : ~Stops(u, g, m)

\* what Array(u).Convert(g) returns when its n-th call of Next is the last
Drained(u, g, n) ==
    IF GenNext(g, n).err = "EOF"
    THEN IF GenClose(g) # "" THEN Result("err", Nil, GenClose(g), n, 1)
         ELSE Result("ok",
                     GoSlice([i \in 1..(n - 1) |->
                                Convert(u, GenNext(g, i).val).val]),
                     "", n, 1)
    ELSE IF GenNext(g, n).err # ""
    THEN Result("err", Nil, GenNext(g, n).err, n, 0)
    ELSE Result(Convert(u, GenNext(g, n).val).st, Nil,
                Convert(u, GenNext(g, n).val).err, n, 0)

\* C17: Array(U).Convert of a Generator pulls the items in order until the
\* end of input; on success the result is the sequence of U.Convert of the
\* pulled items in the order of the pulls; after the first pull that fails
\* or yields an item U does not convert, nothing more is pulled and the
\* error of that step is the one returned.
C17_DrainInOrder ==
    (op = "Convert" /\ recv.tag = "Array" /\ args[1].k = "gen") =>
        LET r == Drained(recv.elems[1], args[1],
                         LastPull(recv.elems[1], args[1]))
        IN /\ ret.st = r.st
           /\ ret.val = r.val
           /\ ret.err = r.err
           /\ ret.pulls = r.pulls

\* a Generator of two items, the first of which does not convert, was
\* drained: one pull was made
C17_Witness ==
    /\ op = "Convert"
    /\ recv.tag = "Array"
    /\ args[1].k = "gen"
    /\ Len(args[1].v.items) = 2
    /\ args[1].v.failAt = 0
    /\ Convert(recv.elems[1], args[1].v.items[1]).st = "err"
    /\ ret.pulls = 1
    /\ ret.err = Convert(recv.elems[1], args[1].v.items[1]).err

\* C18: under every interleaving of query and close calls the handle m.db
\* is open whenever a goroutine holds the read lock for its call of fn, and
\* the function never meets a nil handle.
C18_HandleOpenDuringFn ==
    /\ \A p \in 1..MaxProcs : pc[p] = "fn" => db # "nil"
    /\ op = "getRowID" => ret.st # "panic"

\* the value v has a row id in the bucket
HasRowID(v) == Encode(v).ok /\ Encode(v).key \in DOMAIN bucket

\* the values that have a row id in the bucket
Assigned == {v \in Values : HasRowID(v)}

\* the row id of the value v
RowID(v) == bucket[Encode(v).key]

C20_ClientCount ==
    /\ [](clients >= 0)
    /\ [][/\ (op' = "close" /\ clients > 1)
               => (clients' = clients - 1 /\ db' = db /\ pc' = pc)
          /\ (db # "nil" /\ db' = "nil")
               => /\ clients' = 0
                  /\ \E p \in 1..MaxProcs : pc[p] = "close" /\ pc'[p] = "idle"
          /\ \A p \in 1..MaxProcs :
               (pc[p] # "close" /\ pc'[p] = "close")
                   => (clients <= 1 /\ clients' = 0)]_vars

\* a close with two clients returned: one client is left, the handle open
C20_Witness ==
    /\ op = "close"
    /\ clients = 1
    /\ db = "open"
    /\ \A p \in 1..MaxProcs : pc[p] # "close"

====
